---- MODULE Spec2Model ----
(***************************************************************************)
(* State-machine model of the MediBot health pipeline: the four genkit     *)
(* flows (identifySymptoms, suggestRemediesAndDiet, suggestMedicines,      *)
(* analyzePrescription) and the page component that sequences them.        *)
(*                                                                         *)
(* JavaScript values that may be null/undefined are modelled as options:   *)
(* None is null/undefined (an omitted field), Some(v) is the value v.      *)
(* A model call (the genkit prompt and the transport behind it) resolves   *)
(* to an outcome: it throws a value, or it returns {output} where output   *)
(* is null or an object whose fields may be omitted or empty.              *)
(***************************************************************************)
EXTENDS Integers, Sequences, FiniteSets, TLC

VARIABLES
    activeView,              \* useState<ActiveView>
    healthInfo,              \* useState<HealthInfo | null>
    medicineInfo,            \* useState<MedicineInfo | null>
    error,                   \* useState<string | null>
    lastIdentifiedCondition, \* useState<string | null>
    userProfile,             \* useState<UserProfile | null>
    symptomsFormError,       \* symptomForm.formState.errors.symptoms?.message
    savedItems,              \* useState<SavedItem[]>, newest first
    textPc,                  \* position of onSubmitSymptoms' async callback
    contextKeywords,         \* its local: the keywords sent to identifySymptoms
    identifiedCondition,     \* its local: the condition sent to suggestRemediesAndDiet
    textCalls,               \* model calls made by the current text-path invocation
    medRequests,             \* suggestMedicines calls in flight, oldest first
    hasCameraPermission,     \* useState<boolean | null>
    capturedImage,           \* useState<string | null>
    prescriptionAnalysis,    \* useState<AnalyzePrescriptionOutput | null>
    scanPc,                  \* position of handleProcessImage's async callback
    scanImage                \* the image its analyzePrescription call was made with

textVars == <<healthInfo, error, lastIdentifiedCondition, textPc, contextKeywords,
              identifiedCondition, textCalls>>
medVars  == <<medicineInfo, medRequests>>
scanVars == <<hasCameraPermission, capturedImage, prescriptionAnalysis, scanPc, scanImage>>
vars == <<activeView, userProfile, symptomsFormError, savedItems, textVars, medVars, scanVars>>

-----------------------------------------------------------------------------
(* JavaScript values *)

None == <<>>
Some(v) == <<v>>

\* if (x) on a string | null | undefined
TruthyStr(o) == o # None /\ o[1] # ""

\* a ?? b
Coalesce(o, d) == IF o = None THEN d ELSE o[1]

\* a || b on a string | undefined
OrElseStr(o, d) == IF TruthyStr(o) THEN o[1] ELSE d

\* output?.field
OptField(output, f) == IF output = None THEN None ELSE output[1][f]

Threw(e) == [kind |-> "throw", thrown |-> e]
Returned(o) == [kind |-> "return", output |-> o]

\* what a model call can throw: an Error with a message, or a non-Error value
ThrownValues ==
    { [isError |-> TRUE, message |-> "Transport failure"],
      [isError |-> FALSE, message |-> ""] }

-----------------------------------------------------------------------------
(* Bounds and input domains *)

MaxMedRequests == 2

Views == {"home", "scan", "saved", "meds", "profile"}

Conditions == {"Common Cold", "Seasonal Allergies"}

SymptomTexts == {"", "headache", "persistent headache, sore throat"}

Profiles ==
    { [name |-> "Asha", age |-> 34, gender |-> "female", conditions |-> c] :
        c \in {"", "asthma"} }

MinSymptomsLength == 10

\* the values Date.now() takes
MaxTimestamp == 2
Timestamps == 1..MaxTimestamp

Images == {"data:image/png;base64,AAAA", "data:image/jpeg;base64,BBBB"}

Amoxicillin ==
    [name |-> "Amoxicillin", dosage |-> "500mg", frequency |-> Some("twice a day"),
     duration |-> None, notes |-> None]

Ibuprofen ==
    [name |-> "Ibuprofen", dosage |-> "1 tablet", frequency |-> None,
     duration |-> Some("5 days"), notes |-> Some("Take with food")]

MedicationLists == {<<>>, <<Amoxicillin>>, <<Amoxicillin, Ibuprofen>>, <<Ibuprofen, Amoxicillin>>}

-----------------------------------------------------------------------------
(* Literals of the source *)

MedicineDisclaimer ==
    "**Disclaimer:** This information is AI-generated and not a substitute for professional medical advice. Always consult a doctor or pharmacist before taking any medication. Self-treating can be dangerous."

CouldNotGenerate == "Could not generate suggestions."

ErrorLoadingSuggestions == "Error loading suggestions."

ConsultProfessional == "Please consult a healthcare professional."

IdentifyErrorMessage ==
    "Could not identify potential conditions. Please try rephrasing your symptoms."

RemedyErrorMessage ==
    "Could not fetch remedies and diet suggestions. Please try again."

UnexpectedErrorMessage == "An unexpected error occurred. Please try again."

SymptomsTooShort == "Please describe your symptoms in at least 10 characters."

PrescriptionDisclaimer ==
    "**Important Disclaimer:** This analysis is AI-generated and for informational purposes only. It is NOT a substitute for professional medical advice, diagnosis, or treatment. ALWAYS consult with a qualified healthcare provider or pharmacist regarding any medical condition or treatment. Do not disregard professional medical advice or delay in seeking it because of something you have read or interpreted from this AI-generated analysis. Reliance on any information provided by this AI is solely at your own risk."

CouldNotAnalyze ==
    "Could not analyze the prescription. The image might be unclear or not a valid prescription."

UnexpectedAnalysisMessage == "An unexpected error occurred during analysis."

-----------------------------------------------------------------------------
(* Outcomes of the model calls *)

IdentifyOutputs ==
    {None} \cup { Some([conditions |-> c]) :
                    c \in {None, Some("")} \cup {Some(k) : k \in Conditions} }

IdentifyOutcomes ==
    {Threw(e) : e \in ThrownValues} \cup {Returned(o) : o \in IdentifyOutputs}

RemedyOutputs ==
    {None} \cup { Some([homeRemedies |-> h, dietSuggestions |-> d]) :
                    h \in {None, Some(""), Some("Rest and warm fluids")},
                    d \in {None, Some(""), Some("Light soups and fruit")} }

RemedyOutcomes ==
    {Threw(e) : e \in ThrownValues} \cup {Returned(o) : o \in RemedyOutputs}

MedsFor(c) == "OTC options for " \o c

MedicineOutputs(c) ==
    {None} \cup { Some([suggestedMedicines |-> s, disclaimer |-> d]) :
                    s \in {None, Some(""), Some(MedsFor(c))},
                    d \in {None, Some(""), Some("Ask a pharmacist first.")} }

MedicineOutcomes(c) ==
    {Threw(e) : e \in ThrownValues} \cup {Returned(o) : o \in MedicineOutputs(c)}

PrescriptionOutputs ==
    {None} \cup
    { Some([medications |-> m, overall_instructions |-> o, summary |-> s, disclaimer |-> d]) :
        m \in {None} \cup {Some(l) : l \in MedicationLists},
        o \in {None, Some("Follow up in 2 weeks")},
        s \in {None, Some(""), Some("Not a prescription"), Some("Prescription analyzed.")},
        d \in {None, Some(""), Some("Confirm with your pharmacist.")} }

PrescriptionOutcomes ==
    {Threw(e) : e \in ThrownValues} \cup {Returned(o) : o \in PrescriptionOutputs}

\* a cross-section of the prescription outcomes: a thrown call, no output, an
\* output with every field omitted, scenario C, and a complete output
PrescriptionOutcomesCore ==
    {Threw(e) : e \in ThrownValues} \cup
    { Returned(None),
      Returned(Some([medications |-> None, overall_instructions |-> None,
                     summary |-> None, disclaimer |-> None])),
      Returned(Some([medications |-> Some(<<>>), overall_instructions |-> None,
                     summary |-> Some("Not a prescription"), disclaimer |-> Some("")])),
      Returned(Some([medications |-> Some(<<Amoxicillin, Ibuprofen>>),
                     overall_instructions |-> Some("Follow up in 2 weeks"),
                     summary |-> Some("Prescription analyzed."),
                     disclaimer |-> Some("Confirm with your pharmacist.")])) }

-----------------------------------------------------------------------------
(* The flows: what each returns for the {output} its prompt resolved to *)

\* identifySymptomsFlow, were it to replace a null output as suggestMedicinesFlow does
identifySymptomsFlow_Fallback(output) ==
    Some(Coalesce(output, [conditions |-> Some("Unknown condition")]))

\* identifySymptomsFlow, were it to annotate the text of the model
identifySymptomsFlow_Annotated(output) ==
    IF output # None /\ TruthyStr(output[1].conditions)
    THEN Some([conditions |-> Some("Possible: " \o output[1].conditions[1])])
    ELSE output

\* identifySymptomsFlow: return output!
identifySymptomsFlow(output) == output

\* suggestRemediesAndDietFlow, were it to fill in the fields the output lacks
suggestRemediesAndDietFlow_Defaults(output) ==
    Some([homeRemedies |-> Some(Coalesce(OptField(output, "homeRemedies"),
                                         "Rest and drink fluids.")),
          dietSuggestions |-> Some(Coalesce(OptField(output, "dietSuggestions"),
                                            "Eat a balanced diet."))])

\* suggestRemediesAndDietFlow: return output!
suggestRemediesAndDietFlow(output) == output

\* suggestMedicinesFlow, were it to return a null output as the other flows do
suggestMedicinesFlow_NullPassThrough(output) ==
    IF output = None
    THEN None
    ELSE IF ~TruthyStr(output[1].disclaimer)
         THEN Some([output[1] EXCEPT !.disclaimer = Some(MedicineDisclaimer)])
         ELSE output

\* suggestMedicinesFlow: null output is replaced, a falsy disclaimer is repaired
suggestMedicinesFlow(output) ==
    LET finalOutput ==
            Coalesce(output, [suggestedMedicines |-> Some(CouldNotGenerate),
                              disclaimer |-> Some("")])
    IN  IF ~TruthyStr(finalOutput.disclaimer)
        THEN Some([finalOutput EXCEPT !.disclaimer = Some(MedicineDisclaimer)])
        ELSE Some(finalOutput)

\* analyzePrescriptionFlow, were its disclaimer defaulted with ?? instead of ||
analyzePrescriptionFlow_CoalesceDisclaimer(output) ==
    [medications |-> Coalesce(OptField(output, "medications"), <<>>),
     overall_instructions |-> OptField(output, "overall_instructions"),
     summary |-> Coalesce(OptField(output, "summary"), CouldNotAnalyze),
     disclaimer |-> Coalesce(OptField(output, "disclaimer"), PrescriptionDisclaimer)]

\* analyzePrescriptionFlow, were an output with an omitted field treated as no output
analyzePrescriptionFlow_AllOrNothing(output) ==
    IF \/ output = None
       \/ output[1].medications = None
       \/ output[1].summary = None
       \/ output[1].disclaimer = None
    THEN [medications |-> <<>>,
          overall_instructions |-> None,
          summary |-> CouldNotAnalyze,
          disclaimer |-> PrescriptionDisclaimer]
    ELSE [medications |-> output[1].medications[1],
          overall_instructions |-> output[1].overall_instructions,
          summary |-> output[1].summary[1],
          disclaimer |-> OrElseStr(output[1].disclaimer, PrescriptionDisclaimer)]

\* analyzePrescriptionFlow: the final output is built field by field
\* analyzePrescriptionFlow, were it to blank the optional fields the output lacks
analyzePrescriptionFlow_BlankOptionals(output) ==
    LET blank(m) == [name |-> m.name, dosage |-> m.dosage,
                     frequency |-> Some(Coalesce(m.frequency, "")),
                     duration |-> Some(Coalesce(m.duration, "")),
                     notes |-> Some(Coalesce(m.notes, ""))]
        list == Coalesce(OptField(output, "medications"), <<>>)
    IN  [medications |-> [k \in DOMAIN list |-> blank(list[k])],
         overall_instructions |-> Some(Coalesce(OptField(output, "overall_instructions"), "")),
         summary |-> Coalesce(OptField(output, "summary"), CouldNotAnalyze),
         disclaimer |-> OrElseStr(OptField(output, "disclaimer"), PrescriptionDisclaimer)]

analyzePrescriptionFlow(output) ==
    [medications |-> Coalesce(OptField(output, "medications"), <<>>),
     overall_instructions |-> OptField(output, "overall_instructions"),
     summary |-> Coalesce(OptField(output, "summary"), CouldNotAnalyze),
     disclaimer |-> OrElseStr(OptField(output, "disclaimer"), PrescriptionDisclaimer)]

-----------------------------------------------------------------------------
(* The page component *)

\* catch (e): e instanceof Error ? e.message : <generic>
CaughtMessage(e, generic) == IF e.isError THEN e.message ELSE generic

\* the template literal, were it to add the conditions segment for every profile
ContextKeywords_AlwaysConditions(profile, symptoms) ==
    IF profile # None
    THEN "Symptoms: " \o symptoms \o ". Profile context: Age "
         \o ToString(profile[1].age) \o ", Gender " \o profile[1].gender
         \o ", Pre-existing conditions: " \o profile[1].conditions
         \o "."
    ELSE symptoms

\* the template literal of onSubmitSymptoms
ContextKeywords(profile, symptoms) ==
    IF profile # None
    THEN "Symptoms: " \o symptoms \o ". Profile context: Age "
         \o ToString(profile[1].age) \o ", Gender " \o profile[1].gender
         \o (IF profile[1].conditions # ""
             THEN ", Pre-existing conditions: " \o profile[1].conditions
             ELSE "")
         \o "."
    ELSE symptoms

\* the effect, were it to fetch in the meds view without testing the condition
MedsViewEffect_NoConditionCheck(view, condition, requests) ==
    IF view = "meds"
    THEN [medicineInfo |-> None, medRequests |-> Append(requests, Coalesce(condition, ""))]
    ELSE [medicineInfo |-> None, medRequests |-> requests]

\* the effect, were it to fetch in every view once a condition exists
MedsViewEffect_AnyView(view, condition, requests) ==
    IF TruthyStr(condition)
    THEN [medicineInfo |-> None, medRequests |-> Append(requests, condition[1])]
    ELSE [medicineInfo |-> None, medRequests |-> requests]

\* useEffect on [activeView, lastIdentifiedCondition]: the medicine state it
\* leaves, given the state the handler left
MedsViewEffect(view, condition, requests) ==
    IF view = "meds"
    THEN IF TruthyStr(condition)
         THEN \* fetchMedicineSuggestions(lastIdentifiedCondition)
              [medicineInfo |-> None, medRequests |-> Append(requests, condition[1])]
         ELSE [medicineInfo |-> None, medRequests |-> requests]
    ELSE [medicineInfo |-> None, medRequests |-> requests]

\* the effect runs after a render in which one of its dependencies changed
AfterRender(view, condition, info) ==
    IF view # activeView \/ condition # lastIdentifiedCondition
    THEN MedsViewEffect(view, condition, medRequests)
    ELSE [medicineInfo |-> info, medRequests |-> medRequests]

\* useEffect on [activeView, toast]: entering the scan view resets the scan state
ScanViewEffect(view) ==
    IF view # activeView
    THEN /\ capturedImage' = IF view = "scan" THEN None ELSE capturedImage
         /\ prescriptionAnalysis' = IF view = "scan" THEN None ELSE prescriptionAnalysis
         /\ hasCameraPermission' =
                IF hasCameraPermission = Some(TRUE) THEN None ELSE hasCameraPermission
    ELSE UNCHANGED <<capturedImage, prescriptionAnalysis, hasCameraPermission>>

Init ==
    /\ activeView = "home"
    /\ healthInfo = None
    /\ medicineInfo = None
    /\ error = None
    /\ lastIdentifiedCondition = None
    /\ userProfile = None
    /\ symptomsFormError = None
    /\ savedItems = <<>>
    /\ textPc = "idle"
    /\ contextKeywords = None
    /\ identifiedCondition = None
    /\ textCalls = [identifySymptoms |-> 0, suggestRemediesAndDiet |-> 0]
    /\ medRequests = <<>>
    /\ hasCameraPermission = None
    /\ capturedImage = None
    /\ prescriptionAnalysis = None
    /\ scanPc = "idle"
    /\ scanImage = None

\* BottomNav.handleNavClick
SetActiveView(view) ==
    LET after == AfterRender(view, lastIdentifiedCondition, medicineInfo) IN
    /\ Len(after.medRequests) <= MaxMedRequests
    /\ activeView' = view
    /\ medicineInfo' = after.medicineInfo
    /\ medRequests' = after.medRequests
    /\ ScanViewEffect(view)
    /\ UNCHANGED <<userProfile, savedItems, symptomsFormError, textVars, scanPc, scanImage>>

\* onSubmitSymptoms, were it to leave the previous error in place
OnSubmitSymptoms_KeepsError(symptoms) ==
    /\ activeView = "home"
    /\ textPc = "idle"
    /\ error' = error
    /\ healthInfo' = None
    /\ lastIdentifiedCondition' = None
    /\ LET after == AfterRender(activeView, None, None) IN
        /\ medicineInfo' = after.medicineInfo
        /\ medRequests' = after.medRequests
    /\ contextKeywords' = Some(ContextKeywords(userProfile, symptoms))
    /\ identifiedCondition' = None
    /\ textCalls' = [identifySymptoms |-> 1, suggestRemediesAndDiet |-> 0]
    /\ textPc' = "identifying"
    /\ UNCHANGED <<activeView, userProfile, savedItems, scanVars>>

\* onSubmitSymptoms, were it to start both calls at once
OnSubmitSymptoms_BothCallsAtOnce(symptoms) ==
    /\ activeView = "home"
    /\ textPc = "idle"
    /\ error' = None
    /\ healthInfo' = None
    /\ lastIdentifiedCondition' = None
    /\ LET after == AfterRender(activeView, None, None) IN
        /\ medicineInfo' = after.medicineInfo
        /\ medRequests' = after.medRequests
    /\ contextKeywords' = Some(ContextKeywords(userProfile, symptoms))
    /\ identifiedCondition' = None
    /\ textCalls' = [identifySymptoms |-> 1, suggestRemediesAndDiet |-> 1]
    /\ textPc' = "identifying"
    /\ UNCHANGED <<activeView, userProfile, savedItems, scanVars>>

\* onSubmitSymptoms up to its first await; the form is rendered in the home
\* view and its button is disabled while isPending
OnSubmitSymptoms(symptoms) ==
    /\ activeView = "home"
    /\ textPc = "idle"
    /\ error' = None
    /\ healthInfo' = None
    /\ lastIdentifiedCondition' = None
    /\ LET after == AfterRender(activeView, None, None) IN
        /\ medicineInfo' = after.medicineInfo
        /\ medRequests' = after.medRequests
    /\ contextKeywords' = Some(ContextKeywords(userProfile, symptoms))
    /\ identifiedCondition' = None
    /\ textCalls' = [identifySymptoms |-> 1, suggestRemediesAndDiet |-> 0]
    /\ textPc' = "identifying"
    /\ UNCHANGED <<activeView, userProfile, savedItems, scanVars>>

\* handleSubmit, were the form to have no resolver
HandleSubmit_NoValidation(symptoms) ==
    /\ symptomsFormError' = None
    /\ OnSubmitSymptoms(symptoms)

\* symptomForm.handleSubmit(onSubmitSymptoms): the resolver validates the text
\* against SymptomFormSchema; the handler is called only for a valid text,
\* otherwise the field error is set
HandleSubmit(symptoms) ==
    IF Len(symptoms) >= MinSymptomsLength
    THEN /\ symptomsFormError' = None
         /\ OnSubmitSymptoms(symptoms)
    ELSE /\ activeView = "home"
         /\ textPc = "idle"
         /\ symptomsFormError' = Some(SymptomsTooShort)
         /\ UNCHANGED <<activeView, userProfile, savedItems, textVars, medVars, scanVars>>

\* the catch block, were it to log the error without setting it
TextPathCatch_LogOnly(message) ==
    /\ textPc' = "idle"
    /\ contextKeywords' = None
    /\ identifiedCondition' = None
    /\ UNCHANGED <<error, healthInfo, lastIdentifiedCondition, textCalls, medVars>>

\* the catch block of onSubmitSymptoms
\* the catch block, were it to call identifySymptoms again
TextPathCatch_Retry(message) ==
    /\ textCalls' = [textCalls EXCEPT !.identifySymptoms = @ + 1]
    /\ textPc' = "identifying"
    /\ identifiedCondition' = None
    /\ UNCHANGED <<error, healthInfo, lastIdentifiedCondition, contextKeywords, medVars>>

\* the catch block, were it to forget the identified condition
TextPathCatch_ClearsCondition(message) ==
    /\ error' = Some(message)
    /\ textPc' = "idle"
    /\ contextKeywords' = None
    /\ identifiedCondition' = None
    /\ lastIdentifiedCondition' = None
    /\ UNCHANGED <<healthInfo, textCalls, medVars>>

TextPathCatch(message) ==
    /\ error' = Some(message)
    /\ textPc' = "idle"
    /\ contextKeywords' = None
    /\ identifiedCondition' = None
    /\ UNCHANGED <<healthInfo, lastIdentifiedCondition, textCalls, medVars>>

\* the identification check, were it to test presence instead of truthiness
IdentificationAccepted_PresenceOnly(result) ==
    result # None /\ result[1].conditions # None

\* whether onSubmitSymptoms accepts the result of identifySymptoms
IdentificationAccepted(result) == result # None /\ TruthyStr(result[1].conditions)

\* onSubmitSymptoms from the await of identifySymptoms to the next await
IdentifyResolve(outcome) ==
    /\ textPc = "identifying"
    /\ IF outcome.kind = "throw"
       THEN TextPathCatch(CaughtMessage(outcome.thrown, UnexpectedErrorMessage))
       ELSE LET symptomsResult == identifySymptomsFlow(outcome.output) IN
            IF ~IdentificationAccepted(symptomsResult)
            THEN TextPathCatch(IdentifyErrorMessage)
            ELSE LET condition == symptomsResult[1].conditions
                     after == AfterRender(activeView, condition, medicineInfo)
                 IN  /\ Len(after.medRequests) <= MaxMedRequests
                     /\ identifiedCondition' = condition
                     /\ lastIdentifiedCondition' = condition
                     /\ medicineInfo' = after.medicineInfo
                     /\ medRequests' = after.medRequests
                     /\ textCalls' = [textCalls EXCEPT !.suggestRemediesAndDiet = @ + 1]
                     /\ textPc' = "fetchingRemedies"
                     /\ UNCHANGED <<healthInfo, error, contextKeywords>>
    /\ UNCHANGED <<activeView, userProfile, savedItems, symptomsFormError, scanVars>>

\* the remedy check, were it to test presence instead of truthiness
RemediesAccepted_PresenceOnly(result) ==
    /\ result # None
    /\ result[1].homeRemedies # None
    /\ result[1].dietSuggestions # None

\* whether onSubmitSymptoms accepts the result of suggestRemediesAndDiet
RemediesAccepted(result) ==
    /\ result # None
    /\ TruthyStr(result[1].homeRemedies)
    /\ TruthyStr(result[1].dietSuggestions)

\* onSubmitSymptoms, were it to start over when the remedy call resolves
RemediesResolve_StartsOver(outcome) ==
    /\ textPc = "fetchingRemedies"
    /\ textPc' = "identifying"
    /\ identifiedCondition' = None
    /\ textCalls' = [identifySymptoms |-> 1, suggestRemediesAndDiet |-> 0]
    /\ UNCHANGED <<healthInfo, error, lastIdentifiedCondition, contextKeywords, medVars>>
    /\ UNCHANGED <<activeView, userProfile, savedItems, symptomsFormError, scanVars>>

\* onSubmitSymptoms from the await of suggestRemediesAndDiet to its end
RemediesResolve(outcome) ==
    /\ textPc = "fetchingRemedies"
    /\ IF outcome.kind = "throw"
       THEN TextPathCatch(CaughtMessage(outcome.thrown, UnexpectedErrorMessage))
       ELSE LET remediesDietResult == suggestRemediesAndDietFlow(outcome.output) IN
            IF ~RemediesAccepted(remediesDietResult)
            THEN TextPathCatch(RemedyErrorMessage)
            ELSE /\ healthInfo' = Some([conditions |-> identifiedCondition[1],
                                        remedies |-> remediesDietResult[1].homeRemedies[1],
                                        diet |-> remediesDietResult[1].dietSuggestions[1]])
                 /\ textPc' = "idle"
                 /\ contextKeywords' = None
                 /\ identifiedCondition' = None
                 /\ UNCHANGED <<error, lastIdentifiedCondition, textCalls, medVars>>
    /\ UNCHANGED <<activeView, userProfile, savedItems, symptomsFormError, scanVars>>

\* the medicine check, were it to test presence instead of truthiness
MedicinesAccepted_PresenceOnly(result) ==
    /\ result # None
    /\ result[1].suggestedMedicines # None
    /\ result[1].disclaimer # None

\* whether fetchMedicineSuggestions accepts the result of suggestMedicines
MedicinesAccepted(result) ==
    /\ result # None
    /\ TruthyStr(result[1].suggestedMedicines)
    /\ TruthyStr(result[1].disclaimer)

\* fetchMedicineSuggestions, were its catch block to set an empty disclaimer
MedicineInfoFor_EmptyFallbackDisclaimer(outcome) ==
    LET fallback == [suggestions |-> ErrorLoadingSuggestions, disclaimer |-> ""]
    IN  IF outcome.kind = "throw"
        THEN fallback
        ELSE LET result == suggestMedicinesFlow(outcome.output) IN
             IF ~MedicinesAccepted(result)
             THEN fallback
             ELSE [suggestions |-> result[1].suggestedMedicines[1],
                   disclaimer |-> result[1].disclaimer[1]]

\* fetchMedicineSuggestions, were it to read the page's current condition
\* when its call resolves
MedicineInfoFor_ReadsCurrentCondition(outcome) ==
    LET fallback == [suggestions |-> ErrorLoadingSuggestions,
                     disclaimer |-> ConsultProfessional]
    IN  IF outcome.kind = "throw" \/ lastIdentifiedCondition = None
        THEN fallback
        ELSE LET result == suggestMedicinesFlow(outcome.output) IN
             IF ~MedicinesAccepted(result)
             THEN fallback
             ELSE [suggestions |-> result[1].suggestedMedicines[1],
                   disclaimer |-> result[1].disclaimer[1]]

\* fetchMedicineSuggestions, were it to add to the result already shown
MedicineInfoFor_AppendsPrevious(outcome) ==
    LET fallback == [suggestions |-> ErrorLoadingSuggestions,
                     disclaimer |-> ConsultProfessional]
        previous == IF medicineInfo = None THEN "" ELSE medicineInfo[1].suggestions
    IN  IF outcome.kind = "throw"
        THEN fallback
        ELSE LET result == suggestMedicinesFlow(outcome.output) IN
             IF ~MedicinesAccepted(result)
             THEN fallback
             ELSE [suggestions |-> previous \o result[1].suggestedMedicines[1],
                   disclaimer |-> result[1].disclaimer[1]]

\* the MedicineInfo fetchMedicineSuggestions sets for an outcome of its call
MedicineInfoFor(outcome) ==
    LET fallback == [suggestions |-> ErrorLoadingSuggestions,
                     disclaimer |-> ConsultProfessional]
    IN  IF outcome.kind = "throw"
        THEN fallback
        ELSE LET result == suggestMedicinesFlow(outcome.output) IN
             IF ~MedicinesAccepted(result)
             THEN fallback
             ELSE [suggestions |-> result[1].suggestedMedicines[1],
                   disclaimer |-> result[1].disclaimer[1]]

\* fetchMedicineSuggestions from the await of suggestMedicines to its end,
\* for the request at position i
MedicineResolve(i, outcome) ==
    /\ i \in 1..Len(medRequests)
    /\ medicineInfo' = Some(MedicineInfoFor(outcome))
    /\ medRequests' = SubSeq(medRequests, 1, i - 1)
                        \o SubSeq(medRequests, i + 1, Len(medRequests))
    /\ UNCHANGED <<activeView, userProfile, savedItems, symptomsFormError, textVars, scanVars>>

\* onSubmitProfile; the form is rendered in the profile view
OnSubmitProfile(data) ==
    LET after == AfterRender("home", lastIdentifiedCondition, medicineInfo) IN
    /\ activeView = "profile"
    /\ userProfile' = Some(data)
    /\ activeView' = "home"
    /\ medicineInfo' = after.medicineInfo
    /\ medRequests' = after.medRequests
    /\ ScanViewEffect("home")
    /\ UNCHANGED <<symptomsFormError, savedItems, textVars, scanPc, scanImage>>

\* saveCurrentInfo, were it to save without looking for a duplicate
SaveCurrentInfo_NoDuplicateCheck(now) ==
    /\ activeView = "home"
    /\ textPc = "idle"
    /\ IF healthInfo = None
       THEN UNCHANGED savedItems
       ELSE savedItems' = <<[id |-> ToString(now),
                             condition |-> healthInfo[1].conditions,
                             remedies |-> healthInfo[1].remedies,
                             diet |-> healthInfo[1].diet,
                             timestamp |-> now]>> \o savedItems
    /\ UNCHANGED <<activeView, userProfile, symptomsFormError, textVars, medVars, scanVars>>

\* saveCurrentInfo at time now; its button is rendered in the home view next
\* to the health result, which is hidden while isPending
SaveCurrentInfo(now) ==
    /\ activeView = "home"
    /\ textPc = "idle"
    /\ IF healthInfo = None
       THEN UNCHANGED savedItems
       ELSE LET newItem == [id |-> ToString(now),
                            condition |-> healthInfo[1].conditions,
                            remedies |-> healthInfo[1].remedies,
                            diet |-> healthInfo[1].diet,
                            timestamp |-> now]
                isDuplicate == \E k \in DOMAIN savedItems :
                                   /\ savedItems[k].condition = newItem.condition
                                   /\ savedItems[k].remedies = newItem.remedies
                                   /\ savedItems[k].diet = newItem.diet
            IN  IF isDuplicate
                THEN UNCHANGED savedItems
                ELSE savedItems' = <<newItem>> \o savedItems
    /\ UNCHANGED <<activeView, userProfile, symptomsFormError, textVars, medVars, scanVars>>

\* removeSavedItem; its button is rendered in the saved view on each item
RemoveSavedItem(idToRemove) ==
    /\ activeView = "saved"
    /\ \E k \in DOMAIN savedItems : savedItems[k].id = idToRemove
    /\ savedItems' = SelectSeq(savedItems, LAMBDA item : item.id # idToRemove)
    /\ UNCHANGED <<activeView, userProfile, symptomsFormError, textVars, medVars, scanVars>>

GetCameraPermissionResolve(granted) ==
    /\ activeView = "scan"
    /\ hasCameraPermission # Some(TRUE)
    /\ hasCameraPermission' = Some(granted)
    /\ UNCHANGED <<activeView, userProfile, savedItems, symptomsFormError, textVars, medVars, capturedImage,
                   prescriptionAnalysis, scanPc, scanImage>>

\* captureImage; its button is rendered in the scan view while no image is held
CaptureImage(dataUri) ==
    /\ activeView = "scan"
    /\ capturedImage = None
    /\ IF hasCameraPermission = Some(TRUE)
       THEN /\ capturedImage' = Some(dataUri)
            /\ prescriptionAnalysis' = None
       ELSE UNCHANGED <<capturedImage, prescriptionAnalysis>>
    /\ UNCHANGED <<activeView, userProfile, savedItems, symptomsFormError, textVars, medVars, hasCameraPermission,
                   scanPc, scanImage>>

\* handleFileUpload with a chosen file, through reader.onloadend
HandleFileUpload(dataUri) ==
    /\ activeView = "scan"
    /\ capturedImage = None
    /\ capturedImage' = Some(dataUri)
    /\ prescriptionAnalysis' = None
    /\ UNCHANGED <<activeView, userProfile, savedItems, symptomsFormError, textVars, medVars, hasCameraPermission,
                   scanPc, scanImage>>

\* resetScanView; its button is rendered in the scan view while an image is held
ResetScanView ==
    /\ activeView = "scan"
    /\ capturedImage # None
    /\ capturedImage' = None
    /\ prescriptionAnalysis' = None
    /\ UNCHANGED <<activeView, userProfile, savedItems, symptomsFormError, textVars, medVars, hasCameraPermission,
                   scanPc, scanImage>>

\* handleProcessImage up to its await; its button is disabled while
\* isAnalyzingPrescription
HandleProcessImage ==
    /\ activeView = "scan"
    /\ scanPc = "idle"
    /\ IF ~TruthyStr(capturedImage)
       THEN UNCHANGED <<prescriptionAnalysis, scanPc, scanImage>>
       ELSE /\ prescriptionAnalysis' = None
            /\ scanImage' = capturedImage
            /\ scanPc' = "analyzing"
    /\ UNCHANGED <<activeView, userProfile, savedItems, symptomsFormError, textVars, medVars, hasCameraPermission,
                   capturedImage>>

\* handleProcessImage, were its catch block to use the message as the summary
PrescriptionAnalysisFor_RawMessage(outcome) ==
    IF outcome.kind = "throw"
    THEN [medications |-> <<>>,
          overall_instructions |-> None,
          summary |-> CaughtMessage(outcome.thrown, UnexpectedAnalysisMessage),
          disclaimer |-> PrescriptionDisclaimer]
    ELSE analyzePrescriptionFlow(outcome.output)

\* the AnalyzePrescriptionOutput handleProcessImage sets for an outcome of its call
PrescriptionAnalysisFor(outcome) ==
    IF outcome.kind = "throw"
    THEN [medications |-> <<>>,
          overall_instructions |-> None,
          summary |-> "Analysis Error: "
                        \o CaughtMessage(outcome.thrown, UnexpectedAnalysisMessage),
          disclaimer |-> PrescriptionDisclaimer]
    ELSE analyzePrescriptionFlow(outcome.output)

\* handleProcessImage from the await of analyzePrescription to its end
AnalyzeResolve(outcome) ==
    /\ scanPc = "analyzing"
    /\ prescriptionAnalysis' = Some(PrescriptionAnalysisFor(outcome))
    /\ scanPc' = "idle"
    /\ scanImage' = None
    /\ UNCHANGED <<activeView, userProfile, savedItems, symptomsFormError, textVars, medVars, hasCameraPermission,
                   capturedImage>>

Next ==
    \/ \E view \in Views : SetActiveView(view)
    \/ \E symptoms \in SymptomTexts : HandleSubmit(symptoms)
    \/ \E outcome \in IdentifyOutcomes : IdentifyResolve(outcome)
    \/ \E outcome \in RemedyOutcomes : RemediesResolve(outcome)
    \/ \E i \in DOMAIN medRequests :
         \E outcome \in MedicineOutcomes(medRequests[i]) : MedicineResolve(i, outcome)
    \/ \E data \in Profiles : OnSubmitProfile(data)

Spec == Init /\ [][Next]_vars

\* the scan view: capture or upload, analysis, navigation
NextScan ==
    \/ \E view \in Views : SetActiveView(view)
    \/ \E granted \in BOOLEAN : GetCameraPermissionResolve(granted)
    \/ \E dataUri \in Images : CaptureImage(dataUri)
    \/ \E dataUri \in Images : HandleFileUpload(dataUri)
    \/ ResetScanView
    \/ HandleProcessImage
    \/ \E outcome \in PrescriptionOutcomes : AnalyzeResolve(outcome)

SpecScan == Init /\ [][NextScan]_vars

\* the whole page: the text path, the medicine requests and the scan view
\* side by side, with the cross-section of the prescription outcomes
NextPage ==
    \/ \E view \in Views : SetActiveView(view)
    \/ \E symptoms \in SymptomTexts : HandleSubmit(symptoms)
    \/ \E outcome \in IdentifyOutcomes : IdentifyResolve(outcome)
    \/ \E outcome \in RemedyOutcomes : RemediesResolve(outcome)
    \/ \E i \in DOMAIN medRequests :
         \E outcome \in MedicineOutcomes(medRequests[i]) : MedicineResolve(i, outcome)
    \/ \E granted \in BOOLEAN : GetCameraPermissionResolve(granted)
    \/ \E dataUri \in Images : CaptureImage(dataUri)
    \/ \E dataUri \in Images : HandleFileUpload(dataUri)
    \/ ResetScanView
    \/ HandleProcessImage
    \/ \E outcome \in PrescriptionOutcomesCore : AnalyzeResolve(outcome)

SpecPage == Init /\ [][NextPage]_vars

\* a model call that fails with an Error
TransportFailure == Threw([isError |-> TRUE, message |-> "Transport failure"])

\* a cross-section of the outcomes of each call: a thrown call, no output,
\* and a well-formed output
IdentifyOutcomesCore ==
    {TransportFailure, Returned(None)} \cup
    {Returned(Some([conditions |-> Some(c)])) : c \in Conditions}

RemedyOutcomesCore ==
    {TransportFailure, Returned(None),
     Returned(Some([homeRemedies |-> Some("Rest and warm fluids"),
                    dietSuggestions |-> Some("Light soups and fruit")]))}

MedicineOutcomesCore(c) ==
    {TransportFailure, Returned(None),
     Returned(Some([suggestedMedicines |-> Some(MedsFor(c)),
                    disclaimer |-> Some("Ask a pharmacist first.")]))}

\* the oldest suggestMedicines call in flight resolves
OldestMedicineResolve ==
    /\ medRequests # <<>>
    /\ \E outcome \in MedicineOutcomesCore(medRequests[1]) : MedicineResolve(1, outcome)

\* the page with the cross-sections of the outcomes
NextLive ==
    \/ \E view \in Views : SetActiveView(view)
    \/ \E symptoms \in SymptomTexts : HandleSubmit(symptoms)
    \/ \E outcome \in IdentifyOutcomesCore : IdentifyResolve(outcome)
    \/ \E outcome \in RemedyOutcomesCore : RemediesResolve(outcome)
    \/ \E i \in DOMAIN medRequests :
         \E outcome \in MedicineOutcomesCore(medRequests[i]) : MedicineResolve(i, outcome)
    \/ \E dataUri \in Images : HandleFileUpload(dataUri)
    \/ ResetScanView
    \/ HandleProcessImage
    \/ \E outcome \in PrescriptionOutcomesCore : AnalyzeResolve(outcome)

\* the text path, the medicine requests and the saved list
NextSaved ==
    \/ \E view \in Views : SetActiveView(view)
    \/ \E symptoms \in SymptomTexts : HandleSubmit(symptoms)
    \/ \E outcome \in IdentifyOutcomesCore : IdentifyResolve(outcome)
    \/ \E outcome \in RemedyOutcomesCore : RemediesResolve(outcome)
    \/ \E i \in DOMAIN medRequests :
         \E outcome \in MedicineOutcomesCore(medRequests[i]) : MedicineResolve(i, outcome)
    \/ \E now \in Timestamps : SaveCurrentInfo(now)
    \/ \E now \in Timestamps : RemoveSavedItem(ToString(now))

SpecSaved == Init /\ [][NextSaved]_vars

SpecLive ==
    /\ Init
    /\ [][NextLive]_vars
    /\ WF_vars(\E outcome \in IdentifyOutcomesCore : IdentifyResolve(outcome))
    /\ WF_vars(\E outcome \in RemedyOutcomesCore : RemediesResolve(outcome))
    /\ WF_vars(OldestMedicineResolve)
    /\ WF_vars(\E outcome \in PrescriptionOutcomesCore : AnalyzeResolve(outcome))

-----------------------------------------------------------------------------
(* Medicine suggestion: C1, C3, C4 *)

FallbackMedicineInfo ==
    [suggestions |-> "Error loading suggestions.",
     disclaimer |-> "Please consult a healthcare professional."]

\* C1: whatever the condition and whatever the model call resolved to (null
\* output, disclaimer omitted, empty disclaimer, well-formed output, a thrown
\* error), a medicine result handed to the caller has a non-empty disclaimer.
C1_DisclaimerNonEmpty ==
    medicineInfo # None => medicineInfo[1].disclaimer # ""

\* a medicine result whose disclaimer is the canonical text the flow substitutes
C1_Witness ==
    /\ medicineInfo # None
    /\ medicineInfo[1].disclaimer = MedicineDisclaimer

\* C3 as stated: when the model call returns null, the caller receives
\* {"Error loading suggestions.", "Please consult a healthcare professional."}.
C3_NullYieldsErrorLoading ==
    [][\A i \in DOMAIN medRequests :
         MedicineResolve(i, Returned(None))
            => medicineInfo' = Some(FallbackMedicineInfo)]_vars

\* C3 amended: when the model call returns null, the caller receives
\* suggestedMedicines = "Could not generate suggestions." and the canonical
\* AI-generated disclaimer of the flow.
C3_NullYieldsCouldNotGenerate ==
    [][\A i \in DOMAIN medRequests :
         MedicineResolve(i, Returned(None))
            => medicineInfo' =
                 Some([suggestions |-> "Could not generate suggestions.",
                       disclaimer |-> MedicineDisclaimer])]_vars

\* the result of a null output is what the caller holds
C3_Witness ==
    /\ medicineInfo # None
    /\ medicineInfo[1].suggestions = "Could not generate suggestions."

\* the outcomes C4 calls a failure of the stage: the call throws, or the
\* response has a missing or empty suggestedMedicines
MedicineStageFailed(outcome) ==
    \/ outcome.kind = "throw"
    \/ /\ outcome.kind = "return"
       /\ outcome.output # None
       /\ outcome.output[1].suggestedMedicines \in {None, Some("")}

\* C4: suggestMedicines never fails outward. Every resolution of the call
\* leaves a medicine result and sets no error; when the call threw or the
\* response had a missing or empty suggestedMedicines, that result is
\* {"Error loading suggestions.", "Please consult a healthcare professional."}.
C4_NeverFailsOutward ==
    [][\A i \in DOMAIN medRequests : \A outcome \in MedicineOutcomes(medRequests[i]) :
         MedicineResolve(i, outcome)
            => /\ medicineInfo' # None
               /\ medicineInfo'[1].suggestions # ""
               /\ error' = error
               /\ MedicineStageFailed(outcome)
                    => medicineInfo' = Some(FallbackMedicineInfo)]_vars

\* the fallback result is what the caller holds
C4_Witness == medicineInfo = Some(FallbackMedicineInfo)

-----------------------------------------------------------------------------
(* Prescription analysis: C2, C5, C6, C7 *)

\* C2 as stated: a prescription analysis always has a medications sequence
\* and a non-empty summary, also when the response's summary is "".
C2_SummaryNonEmpty ==
    prescriptionAnalysis # None
        => /\ Len(prescriptionAnalysis[1].medications) >= 0
           /\ prescriptionAnalysis[1].summary # ""

SynthesizedAnalysis ==
    [medications |-> <<>>,
     overall_instructions |-> None,
     summary |-> "Could not analyze the prescription. The image might be unclear or not a valid prescription.",
     disclaimer |-> PrescriptionDisclaimer]

\* C5 as stated: when the call gives no output at all (null, or it throws) the
\* analysis is the synthesized result with the literal failure summary.
C5_NoOutputYieldsLiteralSummary ==
    [][\A outcome \in {Returned(None)} \cup {Threw(e) : e \in ThrownValues} :
         AnalyzeResolve(outcome)
            => prescriptionAnalysis' = Some(SynthesizedAnalysis)]_vars

\* C5 amended: a null output yields empty medications, the literal failure
\* summary and the canonical disclaimer; a thrown call yields empty
\* medications, the canonical disclaimer and the summary "Analysis Error: "
\* followed by the thrown Error's message, or by "An unexpected error occurred
\* during analysis." when the thrown value is not an Error.
C5_NoOutputYieldsSynthesized ==
    [][/\ AnalyzeResolve(Returned(None))
            => prescriptionAnalysis' = Some(SynthesizedAnalysis)
       /\ \A e \in ThrownValues :
            AnalyzeResolve(Threw(e))
               => prescriptionAnalysis' =
                    Some([SynthesizedAnalysis EXCEPT !.summary =
                            IF e.isError
                            THEN "Analysis Error: " \o e.message
                            ELSE "Analysis Error: An unexpected error occurred during analysis."])]_vars

\* the analysis synthesized after a thrown call is what the caller holds
C5_Witness ==
    /\ prescriptionAnalysis # None
    /\ prescriptionAnalysis[1].summary = "Analysis Error: Transport failure"
    /\ prescriptionAnalysis[1].medications = <<>>

\* C6: a response {medications: [], summary: S, disclaimer: ""} with S
\* non-empty yields medications = [], summary = S and the canonical disclaimer.
C6_EmptyDisclaimerRepaired ==
    [][\A o \in PrescriptionOutputs :
         ( /\ o # None
           /\ o[1].medications = Some(<<>>)
           /\ TruthyStr(o[1].summary)
           /\ o[1].disclaimer = Some("")
           /\ AnalyzeResolve(Returned(o)) )
            => /\ prescriptionAnalysis'[1].medications = <<>>
               /\ prescriptionAnalysis'[1].summary = o[1].summary[1]
               /\ prescriptionAnalysis'[1].disclaimer = PrescriptionDisclaimer
               /\ prescriptionAnalysis'[1].disclaimer # ""]_vars

\* scenario C of the specification has been analysed
C6_Witness ==
    /\ prescriptionAnalysis # None
    /\ prescriptionAnalysis[1].medications = <<>>
    /\ prescriptionAnalysis[1].summary = "Not a prescription"
    /\ prescriptionAnalysis[1].disclaimer = PrescriptionDisclaimer

\* C7 as stated: each of medications, summary and disclaimer is kept when the
\* response supplies it and replaced by its fallback only when it is omitted.
C7_SuppliedFieldsKept ==
    [][\A o \in PrescriptionOutputs \ {None} :
         AnalyzeResolve(Returned(o))
            => LET r == prescriptionAnalysis'[1] IN
               /\ r.medications = IF o[1].medications = None THEN <<>>
                                  ELSE o[1].medications[1]
               /\ r.summary = IF o[1].summary = None THEN SynthesizedAnalysis.summary
                              ELSE o[1].summary[1]
               /\ r.disclaimer = IF o[1].disclaimer = None THEN PrescriptionDisclaimer
                                 ELSE o[1].disclaimer[1]]_vars

\* C7 amended: repair is field by field. medications and summary are kept when
\* supplied and replaced by their fallback only when omitted; disclaimer is
\* kept when supplied non-empty and replaced by the canonical text when
\* omitted or empty. No field's repair depends on another field.
C7_FieldByFieldRepair ==
    [][\A o \in PrescriptionOutputs \ {None} :
         AnalyzeResolve(Returned(o))
            => LET r == prescriptionAnalysis'[1] IN
               /\ r.medications = IF o[1].medications = None THEN <<>>
                                  ELSE o[1].medications[1]
               /\ r.summary = IF o[1].summary = None THEN SynthesizedAnalysis.summary
                              ELSE o[1].summary[1]
               /\ r.disclaimer = IF o[1].disclaimer \in {None, Some("")}
                                 THEN PrescriptionDisclaimer
                                 ELSE o[1].disclaimer[1]]_vars

\* a partial repair: the summary was omitted and replaced while the supplied
\* medications and disclaimer were kept
C7_Witness ==
    /\ prescriptionAnalysis # None
    /\ prescriptionAnalysis[1].summary = SynthesizedAnalysis.summary
    /\ prescriptionAnalysis[1].medications = <<Amoxicillin, Ibuprofen>>
    /\ prescriptionAnalysis[1].disclaimer = "Confirm with your pharmacist."

-----------------------------------------------------------------------------
(* The text path: C8, C9, C10 *)

\* the identification results onSubmitSymptoms must refuse: null, conditions
\* missing, conditions = ""
IdentificationEmpty(outcome) ==
    /\ outcome.kind = "return"
    /\ \/ outcome.output = None
       \/ outcome.output[1].conditions \in {None, Some("")}

\* C8: identification never reports an empty-string success. After the
\* identifySymptoms call resolves, the text path either goes on to the remedy
\* stage with a non-empty condition recorded, or it ends with an error; a
\* result that is null, lacks conditions or has conditions = "" ends with the
\* identification error.
C8_NoEmptySuccess ==
    [][\A outcome \in IdentifyOutcomes :
         IdentifyResolve(outcome)
            => /\ \/ /\ textPc' = "fetchingRemedies"
                     /\ identifiedCondition' # None
                     /\ identifiedCondition'[1] # ""
                     /\ lastIdentifiedCondition' = identifiedCondition'
                  \/ /\ textPc' = "idle"
                     /\ error' # None
                     /\ lastIdentifiedCondition' = None
               /\ IdentificationEmpty(outcome)
                    => /\ textPc' = "idle"
                       /\ error' = Some("Could not identify potential conditions. Please try rephrasing your symptoms.")]_vars

\* identification succeeded and the text path went on with its condition
C8_Witness ==
    /\ textPc = "fetchingRemedies"
    /\ identifiedCondition = Some("Common Cold")
    /\ lastIdentifiedCondition = Some("Common Cold")

\* what C9 requires of a step that ends a failed identification, but for the
\* message
HaltedAfterIdentification ==
    /\ textPc' = "idle"
    /\ textCalls'.suggestRemediesAndDiet = 0
    /\ lastIdentifiedCondition' = None
    /\ healthInfo' = None

\* C9 as stated: when identification fails (the call throws, or conditions is
\* missing or empty) the pipeline halts and the caller gets the message that
\* the conditions could not be identified.
C9_FailureHaltsWithRephraseMessage ==
    [][\A outcome \in IdentifyOutcomes :
         ( /\ outcome.kind = "throw" \/ IdentificationEmpty(outcome)
           /\ IdentifyResolve(outcome) )
            => /\ HaltedAfterIdentification
               /\ error' = Some("Could not identify potential conditions. Please try rephrasing your symptoms.")]_vars

\* C9 amended: when identification fails the pipeline halts (no remedy call,
\* no condition recorded, no health result) and an error message is set: the
\* could-not-identify message when the result is null or its conditions are
\* missing or empty; when the call throws, the thrown Error's own message, or
\* "An unexpected error occurred. Please try again." for a non-Error.
C9_FailureHalts ==
    [][\A outcome \in IdentifyOutcomes :
         ( /\ outcome.kind = "throw" \/ IdentificationEmpty(outcome)
           /\ IdentifyResolve(outcome) )
            => /\ HaltedAfterIdentification
               /\ error' =
                    IF outcome.kind = "return"
                    THEN Some("Could not identify potential conditions. Please try rephrasing your symptoms.")
                    ELSE IF outcome.thrown.isError
                    THEN Some(outcome.thrown.message)
                    ELSE Some("An unexpected error occurred. Please try again.")]_vars

\* a text-path invocation that ended in the identification failure
C9_Witness ==
    /\ textPc = "idle"
    /\ error = Some("Could not identify potential conditions. Please try rephrasing your symptoms.")
    /\ textCalls = [identifySymptoms |-> 1, suggestRemediesAndDiet |-> 0]
    /\ healthInfo = None
    /\ lastIdentifiedCondition = None

\* C10: a remedy response that misses homeRemedies or dietSuggestions, or has
\* one of them empty, ends as a remedy failure: no health result is
\* constructed and the remedy error is set.
C10_PartialRemediesFail ==
    [][\A outcome \in RemedyOutcomes :
         ( /\ outcome.kind = "return"
           /\ outcome.output # None
           /\ \/ outcome.output[1].homeRemedies \in {None, Some("")}
              \/ outcome.output[1].dietSuggestions \in {None, Some("")}
           /\ RemediesResolve(outcome) )
            => /\ healthInfo' = None
               /\ error' = Some("Could not fetch remedies and diet suggestions. Please try again.")
               /\ textPc' = "idle"]_vars

\* a text-path invocation that ended in the remedy failure
C10_Witness ==
    /\ textPc = "idle"
    /\ error = Some("Could not fetch remedies and diet suggestions. Please try again.")
    /\ healthInfo = None
    /\ lastIdentifiedCondition # None

-----------------------------------------------------------------------------
(* Orchestration: C11, C12, C13 *)

\* C11: within a text-path invocation the stages run in the order Idle,
\* Identifying, then failed or identified, then FetchingRemedies, then failed
\* or complete. The remedy call is started only by the step that receives the
\* identification result, with exactly the condition of that result, and a
\* health result is only produced by the step that ends the remedy stage.
C11_StagesInOrder ==
    [][/\ textPc' # textPc
            => <<textPc, textPc'>> \in { <<"idle", "identifying">>,
                                         <<"identifying", "idle">>,
                                         <<"identifying", "fetchingRemedies">>,
                                         <<"fetchingRemedies", "idle">> }
       /\ textCalls'.suggestRemediesAndDiet > textCalls.suggestRemediesAndDiet
            => /\ textPc = "identifying"
               /\ textPc' = "fetchingRemedies"
               /\ \E o \in IdentifyOutputs :
                    /\ o # None
                    /\ TruthyStr(o[1].conditions)
                    /\ IdentifyResolve(Returned(o))
                    /\ identifiedCondition' = o[1].conditions
       /\ textPc' = "fetchingRemedies"
            => textCalls' = [identifySymptoms |-> 1, suggestRemediesAndDiet |-> 1]
       /\ healthInfo' # healthInfo /\ healthInfo' # None
            => /\ textPc = "fetchingRemedies"
               /\ healthInfo'[1].conditions = identifiedCondition[1]]_vars

\* a text-path invocation that went through every stage
C11_Witness ==
    /\ textPc = "idle"
    /\ healthInfo # None
    /\ healthInfo[1].conditions = "Seasonal Allergies"
    /\ textCalls = [identifySymptoms |-> 1, suggestRemediesAndDiet |-> 1]

C13_AbandonedResultsDiscarded ==
    [][/\ \A i \in DOMAIN medRequests : \A o \in MedicineOutcomes(medRequests[i]) :
            ( /\ \/ activeView # "meds"
                 \/ lastIdentifiedCondition # Some(medRequests[i])
              /\ MedicineResolve(i, o) )
               => medicineInfo' = medicineInfo
       /\ \A o \in PrescriptionOutcomesCore :
            ( /\ capturedImage # scanImage
              /\ AnalyzeResolve(o) )
               => prescriptionAnalysis' = prescriptionAnalysis]_vars

-----------------------------------------------------------------------------
(* Concurrency: C14, C15, C16 *)

\* what a medicine request delivers when run alone: a function of the
\* outcome of its own call only
MedicineOutcomeAlone(o) ==
    IF o.kind = "throw"
    THEN FallbackMedicineInfo
    ELSE IF o.output = None
    THEN [suggestions |-> CouldNotGenerate, disclaimer |-> MedicineDisclaimer]
    ELSE IF ~TruthyStr(o.output[1].suggestedMedicines)
    THEN FallbackMedicineInfo
    ELSE [suggestions |-> o.output[1].suggestedMedicines[1],
          disclaimer |-> IF TruthyStr(o.output[1].disclaimer)
                         THEN o.output[1].disclaimer[1]
                         ELSE MedicineDisclaimer]

\* what the identification stage delivers when run alone
IdentifyOutcomeAlone(o) ==
    IF o.kind = "throw"
    THEN [condition |-> None,
          error |-> Some(CaughtMessage(o.thrown, UnexpectedErrorMessage))]
    ELSE IF o.output # None /\ TruthyStr(o.output[1].conditions)
    THEN [condition |-> o.output[1].conditions, error |-> None]
    ELSE [condition |-> None, error |-> Some(IdentifyErrorMessage)]

C15_TextPathStartsNoMedicineCall ==
    [][(textPc # "idle" /\ textPc' # textPc) => medRequests' = medRequests]_vars

\* C15, amended: a suggestMedicines call is added only by a step that ends
\* with the meds view active and an identified condition, and it is a call
\* for that condition. Completing the remedy stage adds none, completing
\* identification adds none outside the meds view, and completing it inside
\* the meds view adds the call for the condition just identified.
C15_MedicineCallOnlyInMedsView ==
    [][/\ Len(medRequests') > Len(medRequests)
            => /\ activeView' = "meds"
               /\ TruthyStr(lastIdentifiedCondition')
               /\ medRequests' = Append(medRequests, lastIdentifiedCondition'[1])
       /\ (textPc = "fetchingRemedies" /\ textPc' = "idle")
            => medRequests' = medRequests
       /\ (textPc = "identifying" /\ textPc' # textPc /\ activeView # "meds")
            => medRequests' = medRequests
       /\ (textPc = "identifying" /\ textPc' = "fetchingRemedies" /\ activeView = "meds")
            => medRequests' = Append(medRequests, lastIdentifiedCondition'[1])]_vars

\* identification completed in the meds view and the call for it is in flight
C15_Witness ==
    /\ activeView = "meds"
    /\ textPc = "fetchingRemedies"
    /\ medRequests = <<identifiedCondition[1]>>
    /\ medicineInfo = None

\* C16: no retries. Whatever the transport returns, the step that receives
\* the outcome of a call ends that stage without a second call: the text path
\* has made at most one call per stage, a resolved medicine request leaves
\* one request fewer in flight, and a resolved analysis leaves none.
C16_NoRetries ==
    [][/\ textCalls'.identifySymptoms <= 1
       /\ textCalls'.suggestRemediesAndDiet <= 1
       /\ \A o \in IdentifyOutcomes :
            IdentifyResolve(o)
               => /\ textPc' # "identifying"
                  /\ textCalls'.identifySymptoms = textCalls.identifySymptoms
       /\ \A o \in RemedyOutcomes :
            RemediesResolve(o) => textPc' = "idle" /\ textCalls' = textCalls
       /\ \A i \in DOMAIN medRequests : \A o \in MedicineOutcomes(medRequests[i]) :
            MedicineResolve(i, o) => Len(medRequests') = Len(medRequests) - 1
       /\ \A o \in PrescriptionOutcomesCore :
            AnalyzeResolve(o) => scanPc' = "idle" /\ scanImage' = None]_vars

\* every stage failed once and was called once
C16_Witness ==
    /\ textPc = "idle"
    /\ error = Some(RemedyErrorMessage)
    /\ textCalls = [identifySymptoms |-> 1, suggestRemediesAndDiet |-> 1]
    /\ scanPc = "idle"
    /\ prescriptionAnalysis # None
    /\ prescriptionAnalysis[1].summary = CouldNotAnalyze
    /\ medRequests = <<>>
    /\ medicineInfo = Some(FallbackMedicineInfo)

-----------------------------------------------------------------------------
(* Input validation and field handling: C17, C18, C19, C20 *)

\* C17: invalid input fails fast. Submitting a symptom text shorter than
\* MinSymptomsLength starts no identifySymptoms call and leaves the text
\* path as it was; pressing process-image with no image held starts no
\* analyzePrescription call and leaves the analysis unchanged. A call that
\* does start was given a valid input.
C17_InvalidInputFailsFast ==
    [][/\ \A symptoms \in SymptomTexts :
            (Len(symptoms) < MinSymptomsLength /\ HandleSubmit(symptoms))
               => /\ UNCHANGED <<textPc, textCalls, contextKeywords, healthInfo, error>>
                  /\ symptomsFormError' = Some(SymptomsTooShort)
       /\ (textPc = "idle" /\ textPc' = "identifying")
            => \E symptoms \in SymptomTexts :
                 /\ Len(symptoms) >= MinSymptomsLength
                 /\ contextKeywords' = Some(ContextKeywords(userProfile, symptoms))
       /\ (capturedImage = None /\ HandleProcessImage)
            => UNCHANGED <<scanPc, scanImage, prescriptionAnalysis>>
       /\ (scanPc = "idle" /\ scanPc' = "analyzing")
            => capturedImage # None /\ scanImage' = capturedImage]_vars

\* a rejected submission: the field error is shown and no call was ever made
C17_Witness ==
    /\ symptomsFormError = Some(SymptomsTooShort)
    /\ textPc = "idle"
    /\ textCalls.identifySymptoms = 0
    /\ activeView = "scan"
    /\ capturedImage = None
    /\ prescriptionAnalysis # None

\* C18: every call of suggestRemediesAndDiet and of suggestMedicines is made
\* with a non-empty condition.
C18_ConditionNonEmpty ==
    /\ \A i \in DOMAIN medRequests : medRequests[i] # ""
    /\ textPc = "fetchingRemedies"
         => identifiedCondition # None /\ identifiedCondition[1] # ""

\* both calls in flight, each with its condition
C18_Witness ==
    /\ textPc = "fetchingRemedies"
    /\ identifiedCondition = Some("Seasonal Allergies")
    /\ medRequests = <<"Common Cold", "Seasonal Allergies">>

\* C19 as stated: when the model output lacks conditions, homeRemedies,
\* dietSuggestions, suggestedMedicines, summary or medications, the result
\* carries no substitute for it: the text path records no condition and no
\* health result, the medicine result is the failure fallback of the page,
\* and the stored analysis carries neither the literal summary nor an empty
\* medication list in place of the missing field.
C19_NoInventedValues ==
    [][/\ \A o \in IdentifyOutcomes :
            ( /\ o.kind = "return"
              /\ OptField(o.output, "conditions") = None
              /\ IdentifyResolve(o) )
               => lastIdentifiedCondition' = None
       /\ \A o \in RemedyOutcomes :
            ( /\ o.kind = "return"
              /\ \/ OptField(o.output, "homeRemedies") = None
                 \/ OptField(o.output, "dietSuggestions") = None
              /\ RemediesResolve(o) )
               => healthInfo' = None
       /\ \A i \in DOMAIN medRequests : \A o \in MedicineOutcomes(medRequests[i]) :
            ( /\ o.kind = "return"
              /\ OptField(o.output, "suggestedMedicines") = None
              /\ MedicineResolve(i, o) )
               => medicineInfo' = Some(FallbackMedicineInfo)
       /\ \A o \in PrescriptionOutcomesCore :
            ( /\ o.kind = "return"
              /\ OptField(o.output, "summary") = None
              /\ AnalyzeResolve(o) )
               => prescriptionAnalysis'[1].summary # CouldNotAnalyze
       /\ \A o \in PrescriptionOutcomesCore :
            ( /\ o.kind = "return"
              /\ OptField(o.output, "medications") = None
              /\ AnalyzeResolve(o) )
               => prescriptionAnalysis'[1].medications # <<>>]_vars

\* C19, amended: no value is substituted for conditions, homeRemedies or
\* dietSuggestions (the stage fails with its message), nor for
\* suggestedMedicines missing from an output that is present (the page shows
\* its failure fallback). A missing summary or medications is replaced by the
\* literal summary and the empty list, and for a null output the medicine
\* flow supplies "Could not generate suggestions.".
C19_SubstitutesOnlyInMedicineAndPrescription ==
    [][/\ \A o \in IdentifyOutcomes :
            ( /\ o.kind = "return"
              /\ OptField(o.output, "conditions") = None
              /\ IdentifyResolve(o) )
               => /\ lastIdentifiedCondition' = None
                  /\ error' = Some(IdentifyErrorMessage)
       /\ \A o \in RemedyOutcomes :
            ( /\ o.kind = "return"
              /\ \/ OptField(o.output, "homeRemedies") = None
                 \/ OptField(o.output, "dietSuggestions") = None
              /\ RemediesResolve(o) )
               => /\ healthInfo' = None
                  /\ error' = Some(RemedyErrorMessage)
       /\ \A i \in DOMAIN medRequests : \A o \in MedicineOutcomes(medRequests[i]) :
            ( /\ o.kind = "return"
              /\ OptField(o.output, "suggestedMedicines") = None
              /\ MedicineResolve(i, o) )
               => medicineInfo'[1].suggestions =
                    IF o.output = None THEN CouldNotGenerate ELSE ErrorLoadingSuggestions
       /\ \A o \in PrescriptionOutcomesCore :
            ( /\ o.kind = "return"
              /\ OptField(o.output, "summary") = None
              /\ AnalyzeResolve(o) )
               => prescriptionAnalysis'[1].summary = CouldNotAnalyze
       /\ \A o \in PrescriptionOutcomesCore :
            ( /\ o.kind = "return"
              /\ OptField(o.output, "medications") = None
              /\ AnalyzeResolve(o) )
               => prescriptionAnalysis'[1].medications = <<>>]_vars

\* a remedy stage that failed for a missing field next to an analysis whose
\* summary and medications were substituted
C19_Witness ==
    /\ textPc = "idle"
    /\ healthInfo = None
    /\ error = Some(RemedyErrorMessage)
    /\ lastIdentifiedCondition # None
    /\ prescriptionAnalysis # None
    /\ prescriptionAnalysis[1].summary = CouldNotAnalyze
    /\ prescriptionAnalysis[1].medications = <<>>
    /\ medicineInfo # None
    /\ medicineInfo[1].suggestions = CouldNotGenerate

\* C20: the medications of the transport response come back unchanged: same
\* length and order, name and dosage verbatim, and frequency, duration, notes
\* and the result-level overall_instructions absent where the response has
\* them absent.
C20_MedicationsRoundTrip ==
    [][\A o \in PrescriptionOutcomes :
         ( /\ o.kind = "return"
           /\ OptField(o.output, "medications") # None
           /\ AnalyzeResolve(o) )
            => LET sent == o.output[1].medications[1]
                   got == prescriptionAnalysis'[1]
               IN  /\ Len(got.medications) = Len(sent)
                   /\ \A k \in DOMAIN sent :
                        /\ got.medications[k].name = sent[k].name
                        /\ got.medications[k].dosage = sent[k].dosage
                        /\ got.medications[k].frequency = sent[k].frequency
                        /\ got.medications[k].duration = sent[k].duration
                        /\ got.medications[k].notes = sent[k].notes
                   /\ got.overall_instructions = o.output[1].overall_instructions]_vars

\* two medications received in the order sent, absent fields still absent
C20_Witness ==
    /\ scanPc = "idle"
    /\ prescriptionAnalysis # None
    /\ prescriptionAnalysis[1].medications = <<Ibuprofen, Amoxicillin>>
    /\ prescriptionAnalysis[1].medications[1].frequency = None
    /\ prescriptionAnalysis[1].overall_instructions = None

-----------------------------------------------------------------------------
(* Results of the text path: C21 *)

\* C21: the conditions text of the transport is passed on unchanged. For a
\* non-empty conditions text C, the step that receives it records C as the
\* last identified condition and as the condition of the remedy call, the
\* medicine request it starts in the meds view is for C, and the health
\* result produced afterwards carries C.
C21_ConditionsVerbatim ==
    [][/\ \A c \in Conditions :
            IdentifyResolve(Returned(Some([conditions |-> Some(c)])))
               => /\ lastIdentifiedCondition' = Some(c)
                  /\ identifiedCondition' = Some(c)
                  /\ activeView = "meds" => medRequests' = Append(medRequests, c)
       /\ \A o \in RemedyOutcomes :
            (RemediesResolve(o) /\ healthInfo' # None)
               => /\ healthInfo'[1].conditions = identifiedCondition[1]
                  /\ lastIdentifiedCondition' = identifiedCondition
                  /\ identifiedCondition \in {Some(c) : c \in Conditions}]_vars

\* the text of the model in the health result, the recorded condition and
\* the medicine request
C21_Witness ==
    /\ healthInfo # None
    /\ healthInfo[1].conditions = "Common Cold"
    /\ lastIdentifiedCondition = Some("Common Cold")
    /\ medRequests = <<"Common Cold">>

-----------------------------------------------------------------------------
(* Idempotence: C22 *)

\* what the remedy stage delivers for a condition and the outcome of its call
RemedyOutcomeAlone(condition, o) ==
    IF o.kind = "throw"
    THEN [healthInfo |-> None,
          error |-> Some(CaughtMessage(o.thrown, UnexpectedErrorMessage))]
    ELSE IF /\ o.output # None
            /\ TruthyStr(o.output[1].homeRemedies)
            /\ TruthyStr(o.output[1].dietSuggestions)
    THEN [healthInfo |-> Some([conditions |-> condition,
                               remedies |-> o.output[1].homeRemedies[1],
                               diet |-> o.output[1].dietSuggestions[1]]),
          error |-> None]
    ELSE [healthInfo |-> None, error |-> Some(RemedyErrorMessage)]

\* what an image analysis delivers for the outcome of its call
AnalysisOutcomeAlone(o) ==
    IF o.kind = "throw"
    THEN [medications |-> <<>>,
          overall_instructions |-> None,
          summary |-> "Analysis Error: " \o CaughtMessage(o.thrown, UnexpectedAnalysisMessage),
          disclaimer |-> PrescriptionDisclaimer]
    ELSE IF o.output = None
    THEN [medications |-> <<>>,
          overall_instructions |-> None,
          summary |-> CouldNotAnalyze,
          disclaimer |-> PrescriptionDisclaimer]
    ELSE [medications |-> IF o.output[1].medications = None
                          THEN <<>> ELSE o.output[1].medications[1],
          overall_instructions |-> o.output[1].overall_instructions,
          summary |-> IF o.output[1].summary = None
                      THEN CouldNotAnalyze ELSE o.output[1].summary[1],
          disclaimer |-> IF o.output[1].disclaimer \in {None, Some("")}
                         THEN PrescriptionDisclaimer ELSE o.output[1].disclaimer[1]]

\* the response whose result is the medicine result shown, if it is the
\* well-formed result for condition c
ShownMedicineOutcome(c) ==
    Returned(Some([suggestedMedicines |-> Some(MedsFor(c)),
                   disclaimer |-> Some("Ask a pharmacist first.")]))

\* C22: idempotence. In whatever state earlier invocations left the page, an
\* operation delivers the result that its input and the outcome of its call
\* determine; in particular, when the medicine result of a first call for a
\* condition is shown and a second call for the same condition resolves with
\* the same response, the result shown does not change.
C22_Idempotent ==
    [][/\ \A i \in DOMAIN medRequests :
            ( /\ medicineInfo = Some(MedicineOutcomeAlone(ShownMedicineOutcome(medRequests[i])))
              /\ MedicineResolve(i, ShownMedicineOutcome(medRequests[i])) )
               => medicineInfo' = medicineInfo
       /\ \A i \in DOMAIN medRequests : \A o \in MedicineOutcomes(medRequests[i]) :
            MedicineResolve(i, o) => medicineInfo' = Some(MedicineOutcomeAlone(o))
       /\ \A o \in IdentifyOutcomes :
            IdentifyResolve(o)
               => /\ lastIdentifiedCondition' = IdentifyOutcomeAlone(o).condition
                  /\ error' = IdentifyOutcomeAlone(o).error
                  /\ healthInfo' = None
       /\ \A o \in RemedyOutcomes :
            RemediesResolve(o)
               => /\ healthInfo' = RemedyOutcomeAlone(identifiedCondition[1], o).healthInfo
                  /\ error' = RemedyOutcomeAlone(identifiedCondition[1], o).error
       /\ \A o \in PrescriptionOutcomesCore :
            AnalyzeResolve(o) => prescriptionAnalysis' = Some(AnalysisOutcomeAlone(o))]_vars

\* the result of a first call for the condition is shown while a second call
\* for the same condition is in flight
C22_Witness ==
    /\ activeView = "meds"
    /\ lastIdentifiedCondition = Some("Seasonal Allergies")
    /\ medRequests = <<"Seasonal Allergies">>
    /\ medicineInfo = Some([suggestions |-> MedsFor("Seasonal Allergies"),
                            disclaimer |-> "Ask a pharmacist first."])

-----------------------------------------------------------------------------
(* Termination: C23 *)

-----------------------------------------------------------------------------
(* The keywords of the identification call: C24 *)

\* C24: the keywords sent to identifySymptoms are the raw symptom text when
\* no profile exists; with a profile they are the symptom text followed by
\* the profile's age and gender, with the pre-existing-conditions segment
\* exactly when the profile's conditions text is non-empty. The text is kept
\* as built while the call is in flight.
C24_KeywordsFromProfile ==
    [][/\ \A symptoms \in SymptomTexts :
            (Len(symptoms) >= MinSymptomsLength /\ HandleSubmit(symptoms))
               => contextKeywords' =
                    IF userProfile = None
                    THEN Some(symptoms)
                    ELSE IF userProfile[1].conditions = ""
                    THEN Some("Symptoms: " \o symptoms
                              \o ". Profile context: Age 34, Gender female.")
                    ELSE Some("Symptoms: " \o symptoms
                              \o ". Profile context: Age 34, Gender female"
                              \o ", Pre-existing conditions: asthma.")
       /\ (textPc = "identifying" /\ textPc' = "identifying")
            => contextKeywords' = contextKeywords]_vars

\* an identification call in flight with the keywords of a profile that has
\* no pre-existing conditions
C24_Witness ==
    /\ textPc = "identifying"
    /\ userProfile # None
    /\ userProfile[1].conditions = ""
    /\ contextKeywords =
         Some("Symptoms: persistent headache, sore throat. Profile context: Age 34, Gender female.")

-----------------------------------------------------------------------------
(* State of the page after the text path: C25, C26 *)

C26_HealthResultConsistent ==
    [][/\ healthInfo' # None
            => /\ lastIdentifiedCondition' = Some(healthInfo'[1].conditions)
               /\ error' = None
       /\ \A symptoms \in SymptomTexts :
            (Len(symptoms) >= MinSymptomsLength /\ HandleSubmit(symptoms))
               => /\ healthInfo' = None
                  /\ error' = None
                  /\ medicineInfo' = None
                  /\ lastIdentifiedCondition' = None
                  /\ textCalls' = [identifySymptoms |-> 1, suggestRemediesAndDiet |-> 0]]_vars

\* a health result shown with its condition recorded, next to the medicine
\* result fetched for it
C26_Witness ==
    /\ healthInfo # None
    /\ healthInfo[1].conditions = "Seasonal Allergies"
    /\ lastIdentifiedCondition = Some("Seasonal Allergies")
    /\ error = None
    /\ activeView = "meds"
    /\ medRequests = <<>>
    /\ medicineInfo # None
    /\ medicineInfo[1].suggestions = MedsFor("Seasonal Allergies")

-----------------------------------------------------------------------------
(* Order of the medicine results: C27 *)

\* C27: the latest request wins. Once no medicine request is in flight, the
\* medicine result shown in the meds view is never the well-formed result
\* of a request for a condition other than the last identified one.
C27_LatestRequestWins ==
    ( /\ activeView = "meds"
      /\ medRequests = <<>>
      /\ medicineInfo # None
      /\ lastIdentifiedCondition # None )
        => \A c \in Conditions \ {lastIdentifiedCondition[1]} :
             medicineInfo[1].suggestions # MedsFor(c)

-----------------------------------------------------------------------------
(* The analysis and the held image: C28 *)

\* C28: in the scan view a present analysis was produced from the image
\* currently held. An analysis is stored only for the image that is held
\* when its call resolves, no analysis is present while no image is held,
\* and capturing or uploading an image, resetting the scan view and
\* entering the scan view each clear the analysis.
C28_AnalysisOfHeldImage ==
    [][/\ \A o \in PrescriptionOutcomes :
            AnalyzeResolve(o) => capturedImage = scanImage
       /\ (activeView' = "scan" /\ prescriptionAnalysis' # None)
            => capturedImage' # None
       /\ capturedImage' # capturedImage
            => prescriptionAnalysis' = None
       /\ (activeView # "scan" /\ activeView' = "scan")
            => prescriptionAnalysis' = None]_vars

-----------------------------------------------------------------------------
(* The saved list: C29 *)

\* what saveCurrentInfo compares
SavedTriple(item) == <<item.condition, item.remedies, item.diet>>

\* C29: starting from an empty saved list, the list never holds two items
\* with the same condition, remedies and diet; saving a health result whose
\* triple is already in the list leaves the list unchanged, and saving a new
\* one puts it in front.
C29_NoDuplicateSavedItems ==
    [][/\ \A i, j \in DOMAIN savedItems' :
            i # j => SavedTriple(savedItems'[i]) # SavedTriple(savedItems'[j])
       /\ \A now \in Timestamps :
            (SaveCurrentInfo(now) /\ healthInfo # None)
               => LET triple == <<healthInfo[1].conditions, healthInfo[1].remedies,
                                  healthInfo[1].diet>>
                  IN  IF \E k \in DOMAIN savedItems : SavedTriple(savedItems[k]) = triple
                      THEN savedItems' = savedItems
                      ELSE /\ Len(savedItems') = Len(savedItems) + 1
                           /\ SavedTriple(savedItems'[1]) = triple
                           /\ Tail(savedItems') = savedItems]_vars

\* two saved items, and the health result shown is the older of them again
C29_Witness ==
    /\ activeView = "home"
    /\ textPc = "idle"
    /\ Len(savedItems) = 2
    /\ healthInfo # None
    /\ healthInfo[1].conditions = savedItems[2].condition
    /\ savedItems[1].id = savedItems[2].id

====
